---------------------------- MODULE Spec2Model ----------------------------
(***************************************************************************)
(* napari-matplotlib: the redraw controller of NapariMPLWidget and of the  *)
(* concrete widgets built on it (histogram, slice, scatter, features       *)
(* histogram, features line, features mixin).                              *)
(*                                                                         *)
(* The host (napari viewer) owns the layers, the selection, the current    *)
(* step and the theme.  Every action is one host or user event together    *)
(* with the whole handler the widget runs for it, nested Qt signal         *)
(* deliveries included.  A handler is a function from widget state to      *)
(* widget state; a Python exception is the field err, which makes every    *)
(* later statement of the same call chain a no-op.                         *)
(*                                                                         *)
(* Library behaviour the handlers rest on:                                 *)
(*   - QComboBox (not editable) emits currentTextChanged when a model      *)
(*     change moves or invalidates the current index; Qt 5 emits it also   *)
(*     when the text is the same as before, Qt 6 only when it differs.     *)
(*   - An exception raised by a Python slot that Qt calls from inside a    *)
(*     Qt method is handed to the host's exception hook; the Qt method     *)
(*     returns normally to its Python caller.                              *)
(*   - napari's event emitter lets a callback's exception propagate.       *)
(***************************************************************************)
EXTENDS Integers, Sequences, FiniteSets, TLC

VARIABLES
    cls,        \* the widget class that was constructed
    qt,         \* major version of the Qt build (5 or 6)
    selection,  \* viewer.layers.selection, as the list the widget makes of it
    step,       \* viewer.dims.current_step[0]
    color,      \* per layer: face_color (Points) / edge_color (Vectors)
    layers,     \* widget.layers
    selectors,  \* the key combo boxes: dim -> [items, idx]
    xkey,       \* FeaturesHistogramWidget._x_axis_key
    dim_selector, \* SliceWidget.dim_selector: current index (0: "x", 1: "y")
    slider,     \* SliceWidget.slice_selector: [max, value], its minimum is 0
    bins,       \* HistogramWidget._bin_widgets: values, minimum and decimals
    axes,       \* artists on the axes, <<>> when cleared
    event,      \* the event handled last
    log,        \* calls made while handling it, in order
    seen,       \* the combo boxes as each _draw of that event found them
    err,        \* exception that left the handler ("none": it completed)
    slotErrs,   \* exceptions raised by slots Qt called during the handler
    arg,        \* the argument of the call handled last (<<>>: none)
    outside,    \* the handler wrote to the axes or canvas outside a _draw
    nested,     \* a _draw began while on_update_layers was still executing
    contrast_lines, \* HistogramWidget._contrast_lines: <<>> before the first
                \* histogram, else the layer whose limits the lines mark
    call        \* a call of a module-level function: [fn, args, result]

vars == <<cls, qt, selection, step, color, layers, selectors, xkey,
          dim_selector, slider, bins, axes, event, log, seen, err, slotErrs,
          arg, outside, nested, contrast_lines, call>>

(***************************************************************************)
(* Bounds                                                                  *)
(***************************************************************************)
MaxSelected == 2

MaxStep == 1

Steps == 0..MaxStep

(***************************************************************************)
(* The host's layers.                                                      *)
(***************************************************************************)
LayerIds == {"imgA", "imgB", "pts", "vec", "lab", "lab0"}

\* napari layer names are unique; NameOrder lists the layers by ascending name
NameOrder == <<"imgA", "imgB", "lab", "lab0", "pts", "vec">>

LayerType ==
    [l \in LayerIds |->
        CASE l \in {"imgA", "imgB"} -> "Image"
          [] l = "pts" -> "Points"
          [] l = "vec" -> "Vectors"
          [] OTHER -> "Labels"]

\* hasattr(layer, "features")
HasFeatures(l) == LayerType[l] # "Image"

\* layer.features.keys()
Columns ==
    [l \in LayerIds |->
        CASE l \in {"pts", "vec"} -> <<"feature_0", "feature_1">>
          [] l = "lab" -> <<"index", "feature_1", "feature_2">>
          [] OTHER -> <<>>]

\* len(layer.features)
Rows == [l \in LayerIds |-> IF Columns[l] = <<>> THEN 0 ELSE 2]

\* dtype kind, minimum and maximum of layer.data (of its slice z when 3-D)
DataKind == [l \in LayerIds |-> IF l = "imgB" THEN "i" ELSE "u"]

\* the dtype of layer.data
DType(l) == IF DataKind[l] = "i" THEN "int8" ELSE "uint8"

DataMin(l, z) == IF l = "imgB" THEN -2 ELSE 0

DataMax(l, z) == IF l = "imgA" THEN 2 + z ELSE 2

\* layer.rgb exists on the image-like layers only; no modelled image is RGB
HasRgb(l) == LayerType[l] \in {"Image", "Labels"}

Rgb(l) == FALSE

\* layer.data.shape; every layer spans all the steps of the viewer
Shape ==
    [l \in LayerIds |->
        CASE l = "imgA" -> <<MaxStep + 1, 2, 3>>
          [] l = "imgB" -> <<MaxStep + 1, 6>>
          [] l \in {"lab", "lab0"} -> <<MaxStep + 1, 3>>
          [] OTHER -> <<2, 3>>]

NoKey == "<None>"

NoErr == "none"

Range(s) == {s[i] : i \in DOMAIN s}

(***************************************************************************)
(* util.Interval                                                           *)
(***************************************************************************)
\* an optional bound: <<>> is None, <<n>> is n
Interval(lower_bound, upper_bound) == [lower |-> lower_bound, upper |-> upper_bound]

\* a variant of __contains__ that excludes the bounds themselves
ContainsExclusive(interval, val) ==
    IF interval.lower # <<>> /\ val <= interval.lower[1] THEN FALSE
    ELSE IF interval.upper # <<>> /\ val >= interval.upper[1] THEN FALSE
    ELSE TRUE

Contains(interval, val) ==
    IF interval.lower # <<>> /\ val < interval.lower[1] THEN FALSE
    ELSE IF interval.upper # <<>> /\ val > interval.upper[1] THEN FALSE
    ELSE TRUE

\* Interval.__init__ raises ValueError when both bounds are given and the
\* lower one is the larger
IntervalRaises(lower_bound, upper_bound) ==
    /\ lower_bound # <<>>
    /\ upper_bound # <<>>
    /\ lower_bound[1] > upper_bound[1]

\* a test that takes every number for an integer
IsNumber(val) == val.type \in {"int", "float"}

\* isinstance(val, int); a value is its Python type and its magnitude
IsInt(val) == val.type = "int"

\* val in interval: ValueError for a value that is not an int, else the
\* truth value
ContainsOrRaise(interval, val) ==
    IF ~IsInt(val) THEN [raised |-> "ValueError", value |-> FALSE]
    ELSE [raised |-> NoErr, value |-> Contains(interval, val.v)]

\* f"{n}" for n >= 0: the decimal digits, one character each
Format(n) ==
    LET digit == <<"0", "1", "2", "3", "4", "5", "6", "7", "8", "9">>
    IN  IF n < 10 THEN <<digit[n + 1]>>
        ELSE IF n < 100 THEN <<digit[(n \div 10) + 1], digit[(n % 10) + 1]>>
        ELSE <<digit[((n \div 100) % 10) + 1], digit[((n \div 10) % 10) + 1],
               digit[(n % 10) + 1]>>

\* text.replace("1 layers", "1 layer") on a text kept as a sequence of
\* pieces, the digits of a number one piece each: every " layers" that
\* directly follows a character "1" loses its s
ReplaceOneLayers(text) ==
    [i \in DOMAIN text |->
        IF i > 1 /\ text[i] = " layers" /\ text[i - 1] = "1"
        THEN " layer" ELSE text[i]]

\* Interval._helper_text; <<>> is None
HelperText(interval) ==
    LET lower == interval.lower
        upper == interval.upper
        tail == <<" layers", " to generate plot">>
        text ==
            IF upper = <<>>
            THEN <<"Select at least ">> \o Format(lower[1]) \o tail
            ELSE IF lower = <<>>
            THEN <<"Select at most ">> \o Format(upper[1]) \o tail
            ELSE IF lower = upper
            THEN <<"Select ">> \o Format(lower[1]) \o tail
            ELSE <<"Select between ">> \o Format(lower[1]) \o <<" and ">>
                    \o Format(upper[1]) \o tail
    IN  IF lower = <<>> /\ upper = <<>> THEN <<>>
        ELSE ReplaceOneLayers(text)

(***************************************************************************)
(* The widget classes and their contracts.                                 *)
(***************************************************************************)
Classes == {"NapariMPLWidget", "FeaturesMixin", "FeaturesHistogramWidget",
            "FeaturesLineWidget", "ScatterWidget", "SliceWidget",
            "HistogramWidget"}

FEATURES_LAYER_TYPES == {"Labels", "Points", "Shapes", "Tracks", "Vectors"}

n_layers_input(c) ==
    CASE c = "NapariMPLWidget" -> Interval(<<>>, <<>>)
      [] c = "ScatterWidget" -> Interval(<<2>>, <<2>>)
      [] OTHER -> Interval(<<1>>, <<1>>)

input_layer_types(c) ==
    CASE c = "NapariMPLWidget" -> {"Layer"}
      [] c \in {"ScatterWidget", "SliceWidget", "HistogramWidget"} -> {"Image"}
      [] c = "FeaturesLineWidget" -> {"Labels"}
      [] OTHER -> FEATURES_LAYER_TYPES

\* isinstance(layer, types): every layer class derives from Layer
IsInstance(l, types) == "Layer" \in types \/ LayerType[l] \in types

Eligible(c, ls) ==
    /\ Contains(n_layers_input(c), Len(ls))
    /\ \A i \in DOMAIN ls : IsInstance(ls[i], input_layer_types(c))


(***************************************************************************)
(* Widget state threaded through a handler.                                *)
(***************************************************************************)
Cur ==
    [selection |-> selection, step |-> step, color |-> color,
     layers |-> layers, selectors |-> selectors, xkey |-> xkey, dim |-> dim_selector,
     slider |-> slider, bins |-> bins, axes |-> axes,
     log |-> <<>>, seen |-> <<>>, err |-> NoErr, slotErrs |-> <<>>,
     arg |-> <<>>, inDraw |-> FALSE, outside |-> FALSE,
     inRefresh |-> FALSE, nested |-> FALSE, lines |-> contrast_lines]

Raise(W, e) == [W EXCEPT !.err = e]

Call(W, name) == [W EXCEPT !.log = Append(@, name)]

\* the next statement runs only if no exception is propagating
\* (V is the state W, computed once)
Then(W, F(_)) ==
    CHOOSE R \in {IF V.err # NoErr THEN V ELSE F(V) : V \in {W}} : TRUE

\* a write to the axes; it is outside when no _draw is on the call stack
Plot(W, artists) ==
    [W EXCEPT !.axes = @ \o artists, !.outside = @ \/ ~W.inDraw]

\* a slot called by Qt: its exception goes to the host's hook, not to the caller
SlotCall(W, H(_)) ==
    LET V == H(W)
    IN  IF V.err = NoErr THEN V
        ELSE [V EXCEPT !.err = NoErr, !.slotErrs = Append(@, V.err),
                       !.inDraw = W.inDraw]

(***************************************************************************)
(* Python helpers                                                          *)
(***************************************************************************)
Rank(l) == CHOOSE i \in DOMAIN NameOrder : NameOrder[i] = l

RECURSIVE Insert(_, _)
Insert(sorted, l) ==
    IF sorted = <<>> THEN <<l>>
    ELSE IF Rank(l) < Rank(Head(sorted)) THEN <<l>> \o sorted
    ELSE <<Head(sorted)>> \o Insert(Tail(sorted), l)

RECURSIVE SortByName(_)
\* sorted(layers, key=lambda layer: layer.name)
SortByName(ls) ==
    IF ls = <<>> THEN <<>>
    ELSE Insert(SortByName(SubSeq(ls, 1, Len(ls) - 1)), ls[Len(ls)])

\* key.replace("_", " ")
XAxisName(key) ==
    CASE key = "feature_0" -> "feature 0"
      [] key = "feature_1" -> "feature 1"
      [] key = "feature_2" -> "feature 2"
      [] OTHER -> key

RECURSIVE Product(_)
Product(s) == IF s = <<>> THEN 1 ELSE Head(s) * Product(Tail(s))

(***************************************************************************)
(* clear() and the draw() of each class                                    *)
(***************************************************************************)
HasAxes(c) == c \notin {"NapariMPLWidget", "FeaturesMixin"}

\* a clear() that leaves the artists of the last redraw on the axes
ClearKeepsArtists(W) == Call(W, "clear")

Clear(W) ==
    LET V == Call(W, "clear")
    IN  IF HasAxes(cls)
        THEN [V EXCEPT !.axes = <<>>, !.outside = @ \/ ~W.inDraw]
        ELSE V

\* layer.face_color = key / layer.edge_color = key
SetLayerColor(W, l, key) ==
    IF key = NoKey THEN Raise(W, "ValueError")
    ELSE IF key \in Range(Columns[l]) THEN [W EXCEPT !.color[l] = key]
    ELSE [W EXCEPT !.color[l] = "default"]

\* only these layer classes define refresh_colors
HasRefreshColors(l) == LayerType[l] \in {"Points", "Shapes", "Vectors"}

\* FeaturesHistogramWidget._get_data and the plotting half of draw
FeaturesHistogramPlot(W, l) ==
    IF ~HasFeatures(l) THEN W
    ELSE IF Rows[l] = 0 \/ W.xkey = NoKey THEN W
    ELSE IF W.xkey \notin Range(Columns[l]) THEN Raise(W, "KeyError")
    ELSE Plot(W, << <<"hist", l, W.xkey,
                      IF LayerType[l] = "Points" THEN "face_colormap"
                      ELSE IF LayerType[l] = "Vectors" THEN "edge_colormap"
                      ELSE "none">>,
                    <<"xlabel", XAxisName(W.xkey)>>,
                    <<"ylabel", "Counts [#]">> >>)

FeaturesHistogramDraw(W) ==
    IF W.layers = <<>> THEN Raise(W, "IndexError")
    ELSE
        LET l == W.layers[1]
            W1 == IF LayerType[l] \in {"Points", "Vectors"}
                  THEN SetLayerColor(W, l, W.xkey) ELSE W
            W2 == Then(W1, LAMBDA V : IF HasRefreshColors(l) THEN V
                                      ELSE Raise(V, "AttributeError"))
        IN  Then(W2, LAMBDA V : FeaturesHistogramPlot(V, l))

\* ScatterWidget._get_data, then ScatterBaseWidget.draw
ScatterDraw(W) ==
    LET ls == W.layers
        z == W.step
        size(l) == Product(Tail(Shape[l]))
    IN  IF \E i \in DOMAIN ls : z >= Shape[ls[i]][1] THEN Raise(W, "IndexError")
        ELSE IF Len(ls) < 2 THEN Raise(W, "IndexError")
        ELSE IF size(ls[1]) # size(ls[2]) THEN Raise(W, "ValueError")
        ELSE Plot(W, << <<IF size(ls[1]) > 500 THEN "hist2d" ELSE "scatter",
                          ls[1], ls[2], z>>,
                        <<"xlabel", ls[1]>>,
                        <<"ylabel", ls[2]>> >>)

\* QComboBox.count() == 0 ? None : currentText()
GetKey(W, dim) ==
    LET cb == W.selectors[dim]
    IN  IF Len(cb.items) = 0 THEN NoKey
        ELSE IF cb.idx = -1 THEN "" ELSE cb.items[cb.idx + 1]

\* the unique values of the column are the non-zero labels of layer.data
ColumnIsLabels(l, key) == l = "lab" /\ key = "index"

FeaturesLineDraw(W) ==
    IF W.layers = <<>> THEN Raise(W, "IndexError")
    ELSE
        LET l == W.layers[1]
            lk == GetKey(W, "label")
            xk == GetKey(W, "x")
            yk == GetKey(W, "y")
            valid == Range(Columns[l])
        IN  IF ~HasFeatures(l) THEN W
            ELSE IF lk \notin valid THEN Raise(W, "KeyError")
            ELSE IF ~ColumnIsLabels(l, lk) THEN W
            ELSE IF LayerType[l] # "Labels" THEN Raise(W, "AttributeError")
            ELSE
                LET V == Plot(W, << <<"prop_cycle", l>> >>)
                IN  IF Rows[l] > 0 /\ xk \in valid /\ yk \in valid
                    THEN Plot(V, << <<"plot", l, lk, xk, yk>>,
                                    <<"xlabel", xk>>, <<"ylabel", yk>> >>)
                    ELSE V

(***************************************************************************)
(* SliceWidget                                                             *)
(***************************************************************************)
DimNames(l) ==
    IF Len(Shape[l]) = 2 THEN <<"y", "x">>
    ELSE IF Len(Shape[l]) = 3 THEN <<"z", "y", "x">>
    ELSE <<>>

CurrentDimName(W) == IF W.dim = 0 THEN "x" ELSE "y"

IndexOf(s, x) == CHOOSE i \in DOMAIN s : s[i] = x

\* SliceWidget._slice_width
SliceWidth(W, l) == Shape[l][IndexOf(DimNames(l), CurrentDimName(W))] - 1

\* number of elements data[i:i+1] keeps along an axis of length n
SliceLen(i, n) == IF i < n THEN 1 ELSE 0

RECURSIVE SlicedSize(_, _, _)
\* size of data[tuple(slices)] in _get_xy, axis after axis
SlicedSize(W, l, k) ==
    IF k > Len(Shape[l]) THEN 1
    ELSE (IF DimNames(l)[k] = CurrentDimName(W) THEN Shape[l][k]
          ELSE IF DimNames(l)[k] = "z" THEN SliceLen(W.step, Shape[l][k])
          ELSE SliceLen(W.slider.value, Shape[l][k]))
         * SlicedSize(W, l, k + 1)

\* SliceWidget._get_xy and draw
SliceDraw(W) ==
    IF W.layers = <<>> THEN Raise(W, "IndexError")
    ELSE
        LET l == W.layers[1]
        IN  IF DimNames(l) = <<>> THEN Raise(W, "RuntimeError")
            ELSE IF SliceWidth(W, l) # SlicedSize(W, l, 1) THEN Raise(W, "ValueError")
            ELSE Plot(W, << <<"plot", l, CurrentDimName(W), W.slider.value, W.step>>,
                            <<"xlabel", CurrentDimName(W)>>,
                            <<"title", l>> >>)

(***************************************************************************)
(* HistogramWidget                                                         *)
(***************************************************************************)
\* ceil(a / b) for integers, b # 0
CeilDiv(a, b) == IF b > 0 THEN -((-a) \div b) ELSE -(a \div (-b))

\* an arange that also yields a stop it lands on
ArangeClosed(start, stop, by) ==
    LET n == CeilDiv(stop - start + (IF by > 0 THEN 1 ELSE -1), by)
    IN  [i \in 1..(IF n > 0 THEN n ELSE 0) |-> start + (i - 1) * by]

\* np.arange(start, stop, step) for integers, step # 0
Arange(start, stop, by) ==
    LET n == CeilDiv(stop - start, by)
    IN  [i \in 1..(IF n > 0 THEN n ELSE 0) |-> start + (i - 1) * by]

\* The scalar types start and stop can have on integral data: the type of
\* the data when they default to np.min(data) and np.max(data), a Python
\* float (here of integral value) when the bin widgets give them.
DTypes == {"int8", "uint8", "float"}

DTypeMin(ty) == IF ty = "int8" THEN -128 ELSE 0
DTypeMax(ty) == IF ty = "int8" THEN 127 ELSE 255

\* a - b: two numpy integer scalars of one type give a scalar of that type,
\* wrapped at its width; floats do not wrap
Sub(ty, a, b) ==
    IF ty = "float" THEN a - b
    ELSE ((a - b - DTypeMin(ty)) % 256) + DTypeMin(ty)

\* step = np.ceil((stop - start) / num_bins)
BinStep(ty, num_bins, start, stop) == CeilDiv(Sub(ty, stop, start), num_bins)

\* _get_bins on integral data; <<>> stands for the exception np.arange
\* raises on a zero step, and is also the empty array of a step that points
\* away from stop
GetBins(ty, num_bins, start, stop) ==
    LET bstep == BinStep(ty, num_bins, start, stop)
    IN  IF bstep = 0 THEN <<>> ELSE Arange(start, stop + bstep, bstep)

\* a linspace that is one sample short
LinspaceShort(start, stop, num) ==
    [i \in 1..(num - 1) |-> start * (num - 1) + (i - 1) * (stop - start)]

\* np.linspace(start, stop, num) for num >= 2, as the numerators of the
\* samples over the common denominator num - 1: sample i is
\* start + (i - 1) * (stop - start) / (num - 1), and the last one is stop
Linspace(start, stop, num) ==
    [i \in 1..num |-> start * (num - 1) + (i - 1) * (stop - start)]

\* _get_bins: the branch is chosen by the dtype kind of the data; the edges
\* are numerators over the denominator den
GetBinsOfKind(kind, ty, num_bins, start, stop) ==
    IF kind \in {"i", "u"}
    THEN [raised |-> BinStep(ty, num_bins, start, stop) = 0,
          edges |-> GetBins(ty, num_bins, start, stop),
          den |-> 1]
    ELSE [raised |-> FALSE,
          edges |-> Linspace(start, stop, num_bins + 1),
          den |-> num_bins]

\* HistogramWidget._get_layer_data: the axes may get a title, the data are
\* those of the layer or of its slice z
GetLayerData(W, l) ==
    IF ~HasRgb(l) THEN Raise(W, "AttributeError")
    ELSE IF Len(Shape[l]) - (IF Rgb(l) THEN 1 ELSE 0) = 3
    THEN IF W.step >= Shape[l][1] THEN Raise(W, "IndexError")
         ELSE Plot(W, << <<"title", W.step>> >>)
    ELSE W

\* QDoubleSpinBox.setValue with the widget's minimum
Clamp(minimum, v) == IF minimum # <<>> /\ v < minimum[1] THEN minimum[1] ELSE v

\* autoset_widget_bins, then the decimals and minimum of the new data
HistogramSetBins(W, l) ==
    LET lo == DataMin(l, W.step)
        hi == DataMax(l, W.step)
        edges == GetBins(DType(l), 100, lo, hi)
        minimum == IF DataKind[l] = "u" THEN <<0>> ELSE <<>>
        n == Len(edges) - 1
    IN  IF edges = <<>> THEN Raise(W, "ValueError")
        ELSE [W EXCEPT !.bins =
                [start |-> Clamp(minimum, Clamp(W.bins.minimum, edges[1])),
                 stop |-> Clamp(minimum, Clamp(W.bins.minimum, edges[Len(edges)])),
                 num |-> IF n < 1 THEN 1 ELSE n,
                 minimum |-> minimum,
                 decimals |-> IF DataKind[l] \in {"i", "u"} THEN 0 ELSE 2]]

HistogramOnUpdateLayers(W) ==
    IF W.layers = <<>> THEN W
    ELSE Then(GetLayerData(W, W.layers[1]),
              LAMBDA V : HistogramSetBins(V, W.layers[1]))

HistogramPlot(W, l) ==
    LET edges == GetBins("float", W.bins.num, W.bins.start, W.bins.stop)
    IN  IF edges = <<>> THEN Raise(W, "ValueError")
        ELSE [Plot(W, << <<"hist", l, edges>>, <<"axvline", l>>, <<"legend", l>> >>)
                EXCEPT !.lines = <<l>>]

HistogramDraw(W) ==
    IF W.layers = <<>> THEN Raise(W, "IndexError")
    ELSE Then(GetLayerData(W, W.layers[1]),
              LAMBDA V : HistogramPlot(V, W.layers[1]))

DrawBody(W) ==
    LET V == Call(W, "draw")
    IN  CASE cls = "FeaturesHistogramWidget" -> FeaturesHistogramDraw(V)
          [] cls = "SliceWidget" -> SliceDraw(V)
          [] cls = "HistogramWidget" -> HistogramDraw(V)
          [] cls = "FeaturesLineWidget" -> FeaturesLineDraw(V)
          [] cls = "ScatterWidget" -> ScatterDraw(V)
          [] OTHER -> V

(***************************************************************************)
(* NapariMPLWidget._draw                                                   *)
(***************************************************************************)
DrawIfEligible(W) ==
    LET V == Call(W, "check")
    IN  IF Eligible(cls, V.layers) THEN DrawBody(V) ELSE V

Repaint(W) == [Call(W, "canvas.draw") EXCEPT !.outside = @ \/ ~W.inDraw]

\* _draw returns to its caller W with the state R
LeaveDraw(W, R) == IF R.err = NoErr THEN [R EXCEPT !.inDraw = W.inDraw] ELSE R

\* (R is the state after the body of _draw, computed once)
Draw(W) ==
    CHOOSE X \in
        {LeaveDraw(W, R) :
            R \in {Then(Then(Clear([Call(W, "_draw") EXCEPT
                                       !.seen = Append(@, W.selectors),
                                       !.inDraw = TRUE,
                                       !.nested = @ \/ W.inRefresh]),
                            DrawIfEligible),
                       Repaint)}} : TRUE

\* layer.contrast_limits exists on Image layers; whether a Labels layer has
\* it depends on the napari release (labelsHave)
HasContrastLimits(l, labelsHave) ==
    \/ LayerType[l] = "Image"
    \/ (LayerType[l] = "Labels" /\ labelsHave)

\* HistogramWidget._update_contrast_lims: the lines kept from the last
\* histogram are moved to the limits of the first selected layer and the
\* canvas is repainted
UpdateContrastLims(W, labelsHave) ==
    LET V == Call(W, "_update_contrast_lims")
    IN  IF V.layers = <<>> THEN Raise(V, "IndexError")
        ELSE IF ~HasContrastLimits(V.layers[1], labelsHave)
        THEN Raise(V, "AttributeError")
        ELSE IF V.lines = <<>> THEN Raise(V, "AttributeError")
        ELSE Repaint([V EXCEPT !.lines = <<V.layers[1]>>,
                               !.outside = @ \/ ~V.inDraw])

\* FeaturesHistogramWidget._set_axis_keys
SetAxisKeys(W, text) == Draw([Call(W, "_set_axis_keys") EXCEPT !.xkey = text])

(***************************************************************************)
(* QComboBox                                                               *)
(***************************************************************************)
\* the slot each class connects to currentTextChanged
Emit(W, text) ==
    IF cls = "FeaturesHistogramWidget"
    THEN SlotCall(W, LAMBDA V : SetAxisKeys(V, text))
    ELSE SlotCall(W, Draw)

RemoveItem0(W, d) ==
    LET cb == W.selectors[d]
        rest == Tail(cb.items)
    IN  IF cb.idx = 0
        THEN IF rest = <<>>
             THEN Emit([W EXCEPT !.selectors[d] = [items |-> rest, idx |-> -1]], "")
             ELSE Emit([W EXCEPT !.selectors[d] = [items |-> rest, idx |-> 0]], rest[1])
        ELSE IF cb.idx > 0
        THEN LET V == [W EXCEPT !.selectors[d] = [items |-> rest, idx |-> cb.idx - 1]]
             IN  IF qt = 5 THEN Emit(V, cb.items[cb.idx + 1]) ELSE V
        ELSE [W EXCEPT !.selectors[d] = [items |-> rest, idx |-> -1]]

ClearItems(W, d) ==
    LET cb == W.selectors[d]
        V == [W EXCEPT !.selectors[d] = [items |-> <<>>, idx |-> -1]]
    IN  IF cb.items = <<>> THEN W
        ELSE IF cb.idx >= 0 THEN Emit(V, "") ELSE V

\* an addItems that leaves the selector without a current item
AddItemsUnselected(W, d, keys) ==
    [W EXCEPT !.selectors[d] = [items |-> @.items \o keys, idx |-> @.idx]]

AddItems(W, d, keys) ==
    LET cb == W.selectors[d]
    IN  IF keys = <<>> THEN W
        ELSE IF cb.items = <<>>
        THEN Emit([W EXCEPT !.selectors[d] = [items |-> keys, idx |-> 0]], keys[1])
        ELSE [W EXCEPT !.selectors[d] = [items |-> cb.items \o keys, idx |-> cb.idx]]

\* a setCurrentText that moves every selector of the widget
SetCurrentTextEverywhere(W, d, text) ==
    LET i == CHOOSE j \in 0..Len(W.selectors[d].items) :
                 j = 0 \/ W.selectors[d].items[j] = text
    IN  [W EXCEPT !.selectors = [e \in DOMAIN @ |-> [@[e] EXCEPT !.idx = i - 1]]]

\* QComboBox.setCurrentText on a box that is not editable:
\* findText, then setCurrentIndex when the text was found
SetCurrentText(W, d, text) ==
    LET cb == W.selectors[d]
        found == {j \in DOMAIN cb.items : cb.items[j] = text}
    IN  IF found = {} THEN W
        ELSE LET i == (CHOOSE j \in found : \A k \in found : j <= k) - 1
             IN  IF i = cb.idx THEN W
                 ELSE Emit([W EXCEPT !.selectors[d].idx = i], text)

(***************************************************************************)
(* on_update_layers of each class                                          *)
(***************************************************************************)
ComboDims(c) ==
    CASE c = "FeaturesHistogramWidget" -> <<"key">>
      [] c = "FeaturesMixin" -> <<"x", "y">>
      [] c = "FeaturesLineWidget" -> <<"label", "x", "y">>
      [] OTHER -> <<>>

GetValidAxisKeys(W) ==
    IF Len(W.layers) = 0 \/ ~HasFeatures(W.layers[1]) THEN <<>>
    ELSE Columns[W.layers[1]]

\* a refresh that leaves the old items in the selector
KeepItems(W, d) == W

RECURSIVE RemoveAll(_, _)
\* while selector.count() > 0: selector.removeItem(0)
RemoveAll(W, d) ==
    IF Len(W.selectors[d].items) = 0 THEN W
    ELSE RemoveAll(RemoveItem0(W, d), d)

RefreshDim(W, d) == AddItems(RemoveAll(W, d), d, GetValidAxisKeys(W))

RECURSIVE RefreshDims(_, _)
RefreshDims(W, dims) ==
    IF dims = <<>> THEN W
    ELSE RefreshDims(RefreshDim(W, Head(dims)), Tail(dims))

\* an on_update_layers that keeps the key and the selector as they are
KeepKeyOnUpdateLayers(W) == W

FeaturesHistogramOnUpdateLayers(W) ==
    LET W1 == [W EXCEPT !.xkey = NoKey]
    IN  AddItems(ClearItems(W1, "key"), "key", GetValidAxisKeys(W1))

\* QSlider.setRange(0, max): the value is clamped, valueChanged -> _draw
SetRange(W, max) ==
    LET hi == IF max < 0 THEN 0 ELSE max
        v == IF W.slider.value > hi THEN hi ELSE W.slider.value
        V == [W EXCEPT !.slider = [max |-> hi, value |-> v]]
    IN  IF v # W.slider.value THEN SlotCall(V, Draw) ELSE V

SliceOnUpdateLayers(W) ==
    IF W.layers = <<>> THEN Raise(W, "IndexError")
    ELSE
        LET shape == Shape[W.layers[1]]
        IN  SetRange(W, IF CurrentDimName(W) = "x" THEN shape[Len(shape) - 1]
                        ELSE shape[Len(shape)])

\* the on_update_layers of the widget's class
OnUpdateLayersOf(V) ==
    CASE cls = "FeaturesHistogramWidget" -> FeaturesHistogramOnUpdateLayers(V)
      [] cls = "SliceWidget" -> SliceOnUpdateLayers(V)
      [] cls = "HistogramWidget" -> HistogramOnUpdateLayers(V)
      [] cls \in {"FeaturesMixin", "FeaturesLineWidget"} ->
            RefreshDims(V, ComboDims(cls))
      [] OTHER -> V

\* on_update_layers returns to its caller W with the state R
LeaveRefresh(W, R) ==
    IF R.err = NoErr THEN [R EXCEPT !.inRefresh = W.inRefresh] ELSE R

\* (R is the state after the body of on_update_layers, computed once)
OnUpdateLayers(W) ==
    CHOOSE X \in
        {LeaveRefresh(W, R) :
            R \in {OnUpdateLayersOf([Call(W, "on_update_layers") EXCEPT
                                        !.inRefresh = TRUE])}} : TRUE

(***************************************************************************)
(* Setting and reading the keys                                            *)
(***************************************************************************)
\* FeaturesMixin.set_key
SetKey(W, d, value) ==
    LET V == [Call(W, "set_key") EXCEPT !.arg = <<d, value>>]
    IN  IF value \notin Range(GetValidAxisKeys(V)) THEN Raise(V, "AssertionError")
        ELSE Then(SetCurrentText(V, d, value), Draw)

\* the x_axis_key setter of FeaturesHistogramWidget and the x_axis_key,
\* y_axis_key and label_axis_key setters of FeaturesLineWidget
KeySetter(W, d, key) ==
    LET V == [Call(W, "key_setter") EXCEPT !.arg = <<d, key>>]
    IN  IF cls = "FeaturesHistogramWidget" THEN Draw([V EXCEPT !.xkey = key])
        ELSE Then(SetCurrentText(V, d, key), Draw)

\* str(key)
Str(key) == IF key = NoKey THEN "None" ELSE key

\* FeaturesMixin._get_data_names: the names, or the exception it raises
GetDataNames(W) ==
    IF W.layers = <<>> THEN "IndexError"
    ELSE IF ~HasFeatures(W.layers[1]) THEN "AttributeError"
    ELSE LET names == <<Str(GetKey(W, "x")), Str(GetKey(W, "y"))>>
         IN  IF Range(names) \subseteq Range(Columns[W.layers[1]]) THEN names
             ELSE "KeyError"

(***************************************************************************)
(* NapariMPLWidget event handlers                                          *)
(***************************************************************************)
UpdateLayers(W) ==
    LET W1 == [Call(W, "_update_layers") EXCEPT !.layers = SortByName(W.selection)]
    IN  Then(OnUpdateLayers(W1), Draw)

OnNapariThemeChanged(W) ==
    LET W1 == Call(W, "_on_napari_theme_changed")
    IN  Then(Clear(W1), DrawBody)


\* no module-level function has been called
NoCall == [fn |-> "none", args |-> <<>>, result |-> <<>>]

(***************************************************************************)
(* Construction                                                            *)
(***************************************************************************)
EmptyCombo == [items |-> <<>>, idx |-> -1]

\* NapariMPLWidget.__init__ followed by the subclass constructor.  The
\* constructors end with self._update_layers(None); ScatterBaseWidget spells
\* it self.update_layers(None), a name base.py does not define, and is read
\* here as the same handler.  The bare base class and mixin make no such call.
Construct(c, sel, z) ==
    LET W0 == [selection |-> sel, step |-> z,
               color |-> [l \in LayerIds |-> "default"],
               layers |-> <<>>,
               selectors |-> [d \in Range(ComboDims(c)) |-> EmptyCombo],
               xkey |-> NoKey, dim |-> 0, slider |-> [max |-> 99, value |-> 0],
               bins |-> [start |-> 0, stop |-> 100, num |-> 101,
                         minimum |-> <<>>, decimals |-> 2],
               axes |-> <<>>,
               log |-> <<>>, seen |-> <<>>, err |-> NoErr, slotErrs |-> <<>>,
               arg |-> <<>>, inDraw |-> FALSE, outside |-> FALSE,
               inRefresh |-> FALSE, nested |-> FALSE, lines |-> <<>>]
    IN  IF c \in {"NapariMPLWidget", "FeaturesMixin"} THEN W0 ELSE UpdateLayers(W0)

\* list(viewer.layers.selection): the selection is a set, and the widget uses
\* its list only after sorting it; the model lists a selection by descending
\* name, the order the sort has to reverse
ListOf(S) ==
    SelectSeq([i \in DOMAIN NameOrder |-> NameOrder[Len(NameOrder) + 1 - i]],
              LAMBDA l : l \in S)

Selections == {ListOf(S) : S \in {T \in SUBSET LayerIds : Cardinality(T) <= MaxSelected}}

Keys == {"feature_1", "bogus"}

Commit(W, ev) ==
    \E V \in {W} :
        /\ selection' = V.selection
        /\ step' = V.step
        /\ color' = V.color
        /\ layers' = V.layers
        /\ selectors' = V.selectors
        /\ xkey' = V.xkey
        /\ dim_selector' = V.dim
        /\ slider' = V.slider
        /\ bins' = V.bins
        /\ axes' = V.axes
        /\ log' = V.log
        /\ seen' = V.seen
        /\ err' = V.err
        /\ slotErrs' = V.slotErrs
        /\ arg' = V.arg
        /\ outside' = V.outside
        /\ nested' = V.nested
        /\ contrast_lines' = V.lines
        /\ event' = ev
        /\ UNCHANGED <<cls, qt, call>>

\* the Qt major version only matters to the removeItem loops
QtVersions(c) == IF c \in {"FeaturesMixin", "FeaturesLineWidget"} THEN {5, 6} ELSE {6}

Init ==
    \E c \in Classes, sel \in Selections :
      \E q \in QtVersions(c) :
        /\ cls = c
        /\ qt = q
        /\ LET W == Construct(c, sel, 0)
           IN  /\ W.err = NoErr
               /\ selection = W.selection
               /\ step = W.step
               /\ color = W.color
               /\ layers = W.layers
               /\ selectors = W.selectors
               /\ xkey = W.xkey
               /\ dim_selector = W.dim
               /\ slider = W.slider
               /\ bins = W.bins
               /\ axes = W.axes
               /\ log = W.log
               /\ seen = W.seen
               /\ err = W.err
               /\ slotErrs = W.slotErrs
               /\ arg = W.arg
               /\ outside = W.outside
               /\ nested = W.nested
               /\ contrast_lines = W.lines
        /\ call = NoCall
        /\ event = "init"

(***************************************************************************)
(* Events                                                                  *)
(***************************************************************************)
\* viewer.layers.selection.events.changed -> _update_layers
\* what one call of the selection's API can make of it
SelectionMoves(sel) ==
    {<<>>}
    \cup {<<l>> : l \in LayerIds}
    \cup {ListOf(Range(sel) \cup {l}) : l \in LayerIds \ Range(sel)}
    \cup {ListOf(Range(sel) \ {l}) : l \in Range(sel)}

SelectionChanged ==
    \E sel \in SelectionMoves(selection) :
        /\ Len(sel) <= MaxSelected
        /\ Range(sel) # Range(selection)
        /\ Commit(UpdateLayers([Cur EXCEPT !.selection = sel]), "selection")

\* a step handler that goes through _update_layers instead of _draw
StepChangedRefreshing ==
    \E z \in Steps :
        /\ z # step
        /\ Commit(Then(UpdateLayers([Cur EXCEPT !.step = z]), Draw), "step")

\* viewer.dims.events.current_step -> _draw
StepChanged ==
    \E z \in Steps :
        /\ z # step
        /\ Commit(Draw([Cur EXCEPT !.step = z]), "step")

\* viewer.events.theme -> _on_napari_theme_changed
ThemeChanged == Commit(OnNapariThemeChanged(Cur), "theme")

\* the user picks another entry of a key combo box
KeyPicked ==
    \E d \in DOMAIN selectors, i \in 0..2 :
        /\ i < Len(selectors[d].items)
        /\ i # selectors[d].idx
        /\ Commit(Emit([Cur EXCEPT !.selectors[d].idx = i], selectors[d].items[i + 1]),
                  "key")

\* the user picks the other entry of SliceWidget.dim_selector
DimPicked ==
    /\ cls = "SliceWidget"
    /\ Commit(SlotCall([Cur EXCEPT !.dim = 1 - dim_selector], Draw), "dim")

\* the user moves SliceWidget.slice_selector
SliderMoved ==
    \E v \in 0..6 :
        /\ cls = "SliceWidget"
        /\ v <= slider.max
        /\ v # slider.value
        /\ Commit(SlotCall([Cur EXCEPT !.slider.value = v], Draw), "slider")

\* FeaturesMixin.set_key called with any axis and string
SetKeyCalled ==
    \E d \in DOMAIN selectors, k \in Keys :
        /\ cls = "FeaturesMixin"
        /\ Commit(SetKey(Cur, d, k), "set_key")

\* a key property of the widget assigned any string
KeySetterCalled ==
    \E d \in DOMAIN selectors, k \in Keys :
        /\ cls \in {"FeaturesHistogramWidget", "FeaturesLineWidget"}
        /\ Commit(KeySetter(Cur, d, k), "key_setter")

\* FeaturesHistogramWidget._set_axis_keys called with any string
SetAxisKeysCalled ==
    \E k \in Keys :
        /\ cls = "FeaturesHistogramWidget"
        /\ Commit(SetAxisKeys(Cur, k), "_set_axis_keys")

\* one more redraw attempt, nothing else changed: _draw called again;
\* arg tells whether the attempt follows another one directly
\* layer.events.contrast_limits of a layer of the viewer, to which
\* HistogramWidget.on_update_layers has connected _update_contrast_lims
ContrastLimitsChanged ==
    \E l \in LayerIds, labelsHave \in BOOLEAN :
        /\ cls = "HistogramWidget"
        /\ HasContrastLimits(l, labelsHave)
        /\ Commit(UpdateContrastLims(Cur, labelsHave), "contrast_limits")

Redrawn ==
    Commit([Draw(Cur) EXCEPT !.arg = IF event = "redraw" THEN <<"again">> ELSE <<>>],
           "redraw")

Next ==
    \/ SelectionChanged
    \/ StepChanged
    \/ ThemeChanged
    \/ KeyPicked
    \/ DimPicked
    \/ SliderMoved
    \/ SetKeyCalled
    \/ KeySetterCalled
    \/ SetAxisKeysCalled
    \/ ContrastLimitsChanged
    \/ Redrawn

Spec == Init /\ [][Next]_vars

(***************************************************************************)
(* _get_bins called on its own                                             *)
(***************************************************************************)
\* how far from the ends of a type and from zero start and stop are taken
EdgeMargin == 3
\* the numbers of bins tried beside the default of 100
MaxNumBins == 3

\* the values of the worked example: data from 0 to 99 in 100 bins
ExampleValues == {0, 99}

\* the values start and stop are drawn from
BinValues(ty) ==
    ExampleValues \cup
    (IF ty = "float" THEN -EdgeMargin..EdgeMargin
     ELSE {v \in DTypeMin(ty)..DTypeMax(ty) :
            \/ v - DTypeMin(ty) <= EdgeMargin
            \/ DTypeMax(ty) - v <= EdgeMargin
            \/ (-EdgeMargin <= v /\ v <= EdgeMargin)})

NumBins == (1..MaxNumBins) \cup {100}

\* the dtype kinds of the data whose minimum, maximum or bin widgets give
\* scalars of type ty: "f" stands for every kind that is not integral
DataKinds(ty) ==
    IF ty = "int8" THEN {"i"} ELSE IF ty = "uint8" THEN {"u"} ELSE {"i", "f"}

\* a module-level call about to be made: minimum and maximum of the data
\* are in order, the values of the bin widgets need not be
BinsInit ==
    /\ cls = "NapariMPLWidget"
    /\ qt = 6
    /\ LET W == Construct("NapariMPLWidget", <<>>, 0)
       IN  /\ selection = W.selection
           /\ step = W.step
           /\ color = W.color
           /\ layers = W.layers
           /\ selectors = W.selectors
           /\ xkey = W.xkey
           /\ dim_selector = W.dim
           /\ slider = W.slider
           /\ bins = W.bins
           /\ axes = W.axes
           /\ log = W.log
           /\ seen = W.seen
           /\ err = W.err
           /\ slotErrs = W.slotErrs
           /\ arg = W.arg
           /\ outside = W.outside
           /\ nested = W.nested
           /\ contrast_lines = W.lines
    /\ event = "init"
    /\ \E ty \in DTypes, n \in NumBins :
         \E kind \in DataKinds(ty), a \in BinValues(ty), b \in BinValues(ty) :
            /\ ty # "float" => a <= b
            /\ call = [fn |-> "_get_bins",
                       args |-> [kind |-> kind, ty |-> ty, num_bins |-> n,
                                 start |-> a, stop |-> b],
                       result |-> [done |-> FALSE, raised |-> FALSE,
                                   edges |-> <<>>, den |-> 1]]

\* the call returns an array of edges or raises
GetBinsCalled ==
    /\ call.fn = "_get_bins"
    /\ ~call.result.done
    /\ LET x == call.args
           r == GetBinsOfKind(x.kind, x.ty, x.num_bins, x.start, x.stop)
       IN  call' = [call EXCEPT !.result =
                       [done |-> TRUE, raised |-> r.raised,
                        edges |-> r.edges, den |-> r.den]]
    /\ UNCHANGED <<cls, qt, selection, step, color, layers, selectors, xkey,
                   dim_selector, slider, bins, axes, event, log, seen, err,
                   slotErrs, arg, outside, nested, contrast_lines>>

BinsNext == GetBinsCalled

BinsSpec == BinsInit /\ [][BinsNext]_vars


(***************************************************************************)
(* util.Interval used on its own                                           *)
(***************************************************************************)
\* the largest bound and the largest value tried
MaxBound == 21

\* None or a number of layers
OptBounds == {<<>>} \cup {<<n>> : n \in 0..MaxBound}

\* the values tested for membership: ints, floats of integral magnitude
\* and a string
Vals ==
    {[type |-> "int", v |-> n] : n \in -1..(MaxBound + 1)}
        \cup {[type |-> "float", v |-> n] : n \in {0, 1, MaxBound}}
        \cup {[type |-> "str", v |-> 0]}

\* an Interval about to be constructed and asked for membership or for
\* its helper text
IntervalInit ==
    /\ cls = "NapariMPLWidget"
    /\ qt = 6
    /\ LET W == Construct("NapariMPLWidget", <<>>, 0)
       IN  /\ selection = W.selection
           /\ step = W.step
           /\ color = W.color
           /\ layers = W.layers
           /\ selectors = W.selectors
           /\ xkey = W.xkey
           /\ dim_selector = W.dim
           /\ slider = W.slider
           /\ bins = W.bins
           /\ axes = W.axes
           /\ log = W.log
           /\ seen = W.seen
           /\ err = W.err
           /\ slotErrs = W.slotErrs
           /\ arg = W.arg
           /\ outside = W.outside
           /\ nested = W.nested
           /\ contrast_lines = W.lines
    /\ event = "init"
    /\ \E lo \in OptBounds, up \in OptBounds :
         \/ \E val \in Vals :
                call = [fn |-> "__contains__",
                        args |-> [lower |-> lo, upper |-> up, val |-> val],
                        result |-> [done |-> FALSE, raised |-> NoErr,
                                    value |-> FALSE]]
         \/ call = [fn |-> "_helper_text",
                    args |-> [lower |-> lo, upper |-> up],
                    result |-> [done |-> FALSE, raised |-> NoErr,
                                value |-> <<>>]]

\* Interval(lower, upper) is constructed, then val in interval is evaluated
IntervalContainsCalled ==
    /\ call.fn = "__contains__"
    /\ ~call.result.done
    /\ LET x == call.args
           r == ContainsOrRaise(Interval(x.lower, x.upper), x.val)
       IN  call' = [call EXCEPT !.result =
                       IF IntervalRaises(x.lower, x.upper)
                       THEN [done |-> TRUE, raised |-> "ValueError",
                             value |-> FALSE]
                       ELSE [done |-> TRUE, raised |-> r.raised,
                             value |-> r.value]]
    /\ UNCHANGED <<cls, qt, selection, step, color, layers, selectors, xkey,
                   dim_selector, slider, bins, axes, event, log, seen, err,
                   slotErrs, arg, outside, nested, contrast_lines>>

\* Interval(lower, upper) is constructed, then asked for its helper text
IntervalHelperTextCalled ==
    /\ call.fn = "_helper_text"
    /\ ~call.result.done
    /\ LET x == call.args
       IN  call' = [call EXCEPT !.result =
                       IF IntervalRaises(x.lower, x.upper)
                       THEN [done |-> TRUE, raised |-> "ValueError",
                             value |-> <<>>]
                       ELSE [done |-> TRUE, raised |-> NoErr,
                             value |-> HelperText(Interval(x.lower, x.upper))]]
    /\ UNCHANGED <<cls, qt, selection, step, color, layers, selectors, xkey,
                   dim_selector, slider, bins, axes, event, log, seen, err,
                   slotErrs, arg, outside, nested, contrast_lines>>

IntervalNext ==
    \/ IntervalContainsCalled
    \/ IntervalHelperTextCalled

IntervalSpec == IntervalInit /\ [][IntervalNext]_vars


(***************************************************************************)
(* Reading the record of the last event.                                   *)
(***************************************************************************)
\* positions of the calls of one method during the last event
CallsOf(name) == {i \in DOMAIN log : log[i] = name}

\* the contract of the class, read from its declaration
WithinBounds(n) ==
    /\ (n_layers_input(cls).lower # <<>> => n >= n_layers_input(cls).lower[1])
    /\ (n_layers_input(cls).upper # <<>> => n <= n_layers_input(cls).upper[1])

AllowedType(l) ==
    \/ input_layer_types(cls) = {"Layer"}
    \/ LayerType[l] \in input_layer_types(cls)

SelectionEligible(ls) == WithinBounds(Len(ls)) /\ \A l \in Range(ls) : AllowedType(l)

(***************************************************************************)
(* C1                                                                      *)
(***************************************************************************)
\* C1: _draw invokes draw() if and only if the number of selected layers is
\* within n_layers_input (both bounds included, a None bound is open) and
\* every selected layer is an instance of one of input_layer_types.
C1_DrawIffEligible ==
    \A i \in CallsOf("check") :
        (i + 1 \in DOMAIN log /\ log[i + 1] = "draw") <=> SelectionEligible(layers)

\* a HistogramWidget drew the one image selected by a selection change
C1_Witness ==
    /\ cls = "HistogramWidget"
    /\ event = "selection"
    /\ layers = <<"imgA">>
    /\ CallsOf("draw") # {}
    /\ \E a \in Range(axes) : a[1] = "hist"

(***************************************************************************)
(* C2                                                                      *)
(***************************************************************************)
\* C2: whatever the event, draw() is invoked only when the selection is
\* eligible; on an ineligible selection draw() is not called and the canvas
\* stays cleared.
C2_DrawOnlyWhenEligible ==
    ~SelectionEligible(layers) => (CallsOf("draw") = {} /\ axes = <<>>)

(***************************************************************************)
(* C3                                                                      *)
(***************************************************************************)
\* C3: every _draw runs clear(), then the eligibility check, then draw() only
\* if eligible, then canvas.draw(); the repaint is requested whether or not
\* draw() ran.
C3_RedrawOrder ==
    \A i \in CallsOf("_draw") :
        /\ i + 3 \in DOMAIN log
        /\ log[i + 1] = "clear"
        /\ log[i + 2] = "check"
        /\ \/ log[i + 3] = "canvas.draw"
           \/ /\ log[i + 3] = "draw"
              /\ i + 4 \in DOMAIN log
              /\ log[i + 4] = "canvas.draw"

(***************************************************************************)
(* C4                                                                      *)
(***************************************************************************)
\* C4: when the selection goes from an eligible one to the empty or to any
\* ineligible one, the selection handler raises nothing and leaves the canvas
\* cleared.
C4_IneligibleSelectionIsQuiet ==
    [][(SelectionEligible(layers) /\ event' = "selection"
            /\ ~SelectionEligible(SortByName(selection')))
        => (err' = NoErr /\ axes' = <<>>)]_vars

(***************************************************************************)
(* C5                                                                      *)
(***************************************************************************)
\* C5: a selection change sets layers to the selection in ascending order of
\* name, then calls on_update_layers(), then attempts a redraw; a drawn
\* ScatterWidget has the layer of the smaller name on the x axis.
C5_SortRefreshRedraw ==
    event = "selection" =>
        /\ Range(layers) = Range(selection)
        /\ Len(layers) = Len(selection)
        /\ \A i, j \in DOMAIN layers : i < j => Rank(layers[i]) < Rank(layers[j])
        /\ Len(log) >= 3
        /\ log[1] = "_update_layers"
        /\ log[2] = "on_update_layers"
        /\ \E i \in CallsOf("_draw") : i > 2
        /\ \A a \in Range(axes) : a[1] \in {"scatter", "hist2d"} => Rank(a[2]) < Rank(a[3])

(***************************************************************************)
(* C6                                                                      *)
(***************************************************************************)
\* C6: a step change makes exactly one redraw attempt, calls no
\* on_update_layers, and leaves layers, the candidate key lists and the
\* chosen keys as they were.
C6_StepRedrawsOnce ==
    [][event' = "step" =>
        /\ Cardinality({i \in DOMAIN log' : log'[i] = "_draw"}) = 1
        /\ \A i \in DOMAIN log' : log'[i] \notin {"on_update_layers", "_update_layers"}
        /\ layers' = layers
        /\ selectors' = selectors
        /\ xkey' = xkey]_vars

\* a FeaturesHistogramWidget redrew the chosen second column after a step
C6_Witness ==
    /\ cls = "FeaturesHistogramWidget"
    /\ event = "step"
    /\ xkey = "feature_1"
    /\ selectors["key"].idx = 1
    /\ CallsOf("draw") # {}
    /\ axes # <<>>

(***************************************************************************)
(* C7                                                                      *)
(***************************************************************************)
\* C7: during a selection change on_update_layers runs exactly once and every
\* redraw attempt of the event starts with the registry already in its final,
\* fully refreshed state.
C7_RefreshBeforeRedraw ==
    event = "selection" =>
        /\ Cardinality(CallsOf("on_update_layers")) = 1
        /\ \A i \in DOMAIN seen : seen[i] = selectors

(***************************************************************************)
(* C8                                                                      *)
(***************************************************************************)
\* the column names of the first selected layer's features table
FeatureColumns ==
    IF layers = <<>> THEN <<>>
    ELSE IF LayerType[layers[1]] = "Image" THEN <<>>
    ELSE Columns[layers[1]]

\* C8: after the refresh of a selection change the candidate list of every
\* axis is exactly the columns of the first selected layer's features table,
\* and empty when there is no layer, no features attribute or no column.
C8_CandidatesAreColumns ==
    event = "selection" =>
        \A d \in DOMAIN selectors : selectors[d].items = FeatureColumns

\* the three selectors of a FeaturesLineWidget hold the columns of the labels
C8_Witness ==
    /\ cls = "FeaturesLineWidget"
    /\ event = "selection"
    /\ layers = <<"lab">>
    /\ \A d \in {"label", "x", "y"} :
          selectors[d].items = <<"index", "feature_1", "feature_2">>

HistogramOfColumn(l, key, label) ==
    << <<"hist", l, key,
         IF LayerType[l] = "Points" THEN "face_colormap" ELSE "edge_colormap">>,
       <<"xlabel", label>>,
       <<"ylabel", "Counts [#]">> >>

C11_KeysAreCandidates ==
    /\ \A d \in DOMAIN selectors :
          GetKey(Cur, d) = NoKey \/ GetKey(Cur, d) \in Range(FeatureColumns)
    /\ xkey = NoKey \/ xkey \in Range(FeatureColumns)

(***************************************************************************)
(* C12                                                                     *)
(***************************************************************************)
\* C12: setting a key that is not in the candidate list, through set_key or
\* through a key property, fails with an error and changes neither the chosen
\* keys nor the plot, and performs no redraw.
C12_InvalidKeyRejected ==
    [][(event' \in {"set_key", "key_setter"} /\ arg'[2] \notin Range(FeatureColumns))
        => /\ err' # NoErr
           /\ selectors' = selectors
           /\ xkey' = xkey
           /\ axes' = axes
           /\ \A i \in DOMAIN log' : log'[i] # "_draw"]_vars

(***************************************************************************)
(* C13                                                                     *)
(***************************************************************************)
\* C13: after set_key(dim, v) with v a candidate, get_key(dim) is v, the other
\* axis keeps its key, a redraw was attempted and _get_data_names names the
\* columns of the chosen keys; get_key is None exactly when the candidate
\* list of the axis is empty.
C13_SetThenGet ==
    [][/\ \A d \in DOMAIN selectors' :
            (GetKey([selectors |-> selectors'], d) = NoKey)
                <=> (selectors'[d].items = <<>>)
       /\ (event' = "set_key" /\ arg'[2] \in Range(FeatureColumns)) =>
            /\ err' = NoErr
            /\ GetKey([selectors |-> selectors'], arg'[1]) = arg'[2]
            /\ \A d \in DOMAIN selectors : d # arg'[1] => selectors'[d] = selectors[d]
            /\ \E i \in DOMAIN log' : log'[i] = "_draw"
            /\ GetDataNames([layers |-> layers', selectors |-> selectors'])
                 = <<GetKey([selectors |-> selectors'], "x"),
                     GetKey([selectors |-> selectors'], "y")>>]_vars

\* set_key moved the y axis to the second column, x stayed on the first
C13_Witness ==
    /\ cls = "FeaturesMixin"
    /\ event = "set_key"
    /\ arg = <<"y", "feature_1">>
    /\ err = NoErr
    /\ GetKey(Cur, "x") = "feature_0"
    /\ GetKey(Cur, "y") = "feature_1"

\* C14: an exception raised by draw() or its data accessor during a redraw is
\* caught inside _draw: when draw() is the last call a handler made (so it
\* raised), no exception is propagating to the caller, and no exception of a
\* redraw started by a Qt signal has reached the host's slot dispatcher
C14_DrawErrorsAreCaught ==
    /\ (log # <<>> /\ log[Len(log)] = "draw") => err = NoErr
    /\ slotErrs = <<>>

\* C15: a second redraw attempt that follows a first one with no event in
\* between leaves the axes, widget.layers, the chosen keys, the bin widgets
\* and the colours of the layers as the first attempt left them, and ends
\* the same way (with the same exception, if any)
C15_RedrawIdempotent ==
    [][(event = "redraw" /\ event' = "redraw")
        => /\ axes' = axes
           /\ layers' = layers
           /\ selectors' = selectors /\ xkey' = xkey
           /\ bins' = bins
           /\ color' = color
           /\ err' = err /\ slotErrs' = slotErrs]_vars

\* a widget that has redrawn a histogram of a selected image twice in a row
C15_Witness ==
    /\ cls = "HistogramWidget"
    /\ event = "redraw" /\ arg = <<"again">>
    /\ err = NoErr
    /\ \E i \in DOMAIN axes : axes[i][1] = "hist"

\* the bin widgets and the axes are those of the widget first, if it could
\* be constructed
C16_SameAs(first) ==
    first.err = NoErr
        => /\ bins.start = first.bins.start
           /\ bins.stop = first.bins.stop
           /\ bins.num = first.bins.num
           /\ axes = first.axes

\* C16: after a selection change the plot and the bin start, stop and num of
\* a HistogramWidget depend on the selected layers and the step only: they
\* are the ones the widget shows when it meets this selection first, at its
\* construction, whatever was selected in between
C16_SelectionDeterminesPlot ==
    (cls = "HistogramWidget" /\ event = "selection" /\ err = NoErr /\ layers # <<>>)
        => C16_SameAs(Construct(cls, selection, step))

\* C17: every handler runs to completion before another one starts: no
\* redraw attempt begins while the handler of a selection change is still
\* executing its on_update_layers
C17_NoRedrawDuringRefresh == event = "selection" => ~nested

\* C18: the axes are cleared, written and repainted only while a _draw is on
\* the call stack: no handler or helper touches them outside a redraw attempt
C18_AxesWrittenInsideDraw == ~outside

\* C19: no operation of the widget changes an attribute of a layer: every
\* layer keeps the colours the host gave it
C19_LayersOnlyRead == color = [l \in LayerIds |-> "default"]

\* the step of the claim, computed on the integers: the least s with
\* s * num_bins >= stop - start
C20_Step(num_bins, start, stop) ==
    CHOOSE s \in 1..(stop - start) :
        /\ s * num_bins >= stop - start
        /\ (s - 1) * num_bins < stop - start

\* C20: on integral data with start < stop and num_bins >= 1, _get_bins
\* returns the integers start, start + step, start + 2 * step, ... that are
\* strictly below stop + step, with step = ceil((stop - start) / num_bins)
C20_IntegralEdges ==
    LET x == call.args
        edges == call.result.edges
    IN  (call.result.done /\ x.kind \in {"i", "u"} /\ x.start < x.stop)
            => LET s == C20_Step(x.num_bins, x.start, x.stop)
               IN  /\ ~call.result.raised
                   /\ edges # <<>>
                   /\ edges[1] = x.start
                   /\ \A i \in 1..(Len(edges) - 1) : edges[i + 1] - edges[i] = s
                   /\ edges[Len(edges)] < x.stop + s
                   /\ edges[Len(edges)] + s >= x.stop + s

\* the call of the worked example has returned: integral data from 0 to 99,
\* 100 bins asked for
C21_ExampleDone ==
    /\ call.fn = "_get_bins"
    /\ call.result.done
    /\ call.args.kind \in {"i", "u"}
    /\ call.args.start = 0
    /\ call.args.stop = 99
    /\ call.args.num_bins = 100

\* C21: as stated: for integral data with minimum 0, maximum 99 and
\* num_bins 100 the edges are exactly the 101 integers 0, 1, ..., 100
C21_EdgesZeroToHundred ==
    C21_ExampleDone
        => /\ ~call.result.raised
           /\ call.result.edges = [i \in 1..101 |-> i - 1]

\* C21: as the code has it: for integral data with minimum 0, maximum 99
\* and num_bins 100 the step is 1 and the edges are exactly the 100 integers
\* 0, 1, ..., 99, the half-open range from start to stop + step
C21_EdgesZeroToNinetyNine ==
    C21_ExampleDone
        => /\ ~call.result.raised
           /\ call.result.den = 1
           /\ call.result.edges = [i \in 1..100 |-> i - 1]

C21_Witness ==
    /\ C21_ExampleDone
    /\ call.args.ty = "uint8"
    /\ Len(call.result.edges) = 100
    /\ call.result.edges[100] = 99

\* C22: on data that is not of an integral type, for every num_bins >= 1,
\* _get_bins returns exactly num_bins + 1 edges, the first equal to start
\* and the last equal to stop
C22_LinspaceEdges ==
    LET x == call.args
        edges == call.result.edges
        den == call.result.den
    IN  (call.fn = "_get_bins" /\ call.result.done /\ x.kind = "f")
            => /\ ~call.result.raised
               /\ Len(edges) = x.num_bins + 1
               /\ edges[1] = x.start * den
               /\ edges[Len(edges)] = x.stop * den

C22_Witness ==
    /\ call.fn = "_get_bins"
    /\ call.result.done
    /\ call.args.kind = "f"
    /\ call.args.num_bins = 3
    /\ call.args.start = -1
    /\ call.args.stop = 1
    /\ call.result.den = 3
    /\ call.result.edges = <<-3, -1, 1, 3>>

\* C23: on constant data (start equal to stop), integral or not, _get_bins
\* does not raise and returns a single bin, that is exactly two edges
C23_ConstantDataSingleBin ==
    (call.fn = "_get_bins" /\ call.result.done
        /\ call.args.start = call.args.stop)
        => /\ ~call.result.raised
           /\ Len(call.result.edges) = 2

\* C30: for every start, stop and number of bins the bin widgets accept,
\* start >= stop included, _get_bins on integral data returns a non-empty,
\* strictly increasing array of edges whose first edge is start, whose last
\* edge is at least stop and which has at most bins_num bins
C30_WidgetBinsWellFormed ==
    LET x == call.args
        edges == call.result.edges
    IN  (call.fn = "_get_bins" /\ call.result.done
            /\ x.kind \in {"i", "u"} /\ x.ty = "float")
            => /\ ~call.result.raised
               /\ edges # <<>>
               /\ \A i \in 1..(Len(edges) - 1) : edges[i] < edges[i + 1]
               /\ edges[1] = x.start
               /\ edges[Len(edges)] >= x.stop
               /\ Len(edges) - 1 <= x.num_bins

\* C24: for every Interval(lower, upper) and integer val, val in interval
\* is True exactly when lower is None or val >= lower, and upper is None or
\* val <= upper; a val that is not an integer raises ValueError;
\* constructing an Interval with lower > upper raises ValueError; so the
\* empty selection (val 0) is contained only when lower is None or <= 0
C24_IntervalContains ==
    LET x == call.args
        r == call.result
        lowerOk == x.lower = <<>> \/ x.val.v >= x.lower[1]
        upperOk == x.upper = <<>> \/ x.val.v <= x.upper[1]
        badBounds == x.lower # <<>> /\ x.upper # <<>> /\ x.lower[1] > x.upper[1]
    IN  (call.fn = "__contains__" /\ r.done)
            => /\ badBounds => r.raised = "ValueError"
               /\ (~badBounds /\ x.val.type # "int") => r.raised = "ValueError"
               /\ (~badBounds /\ x.val.type = "int")
                    => /\ r.raised = NoErr
                       /\ r.value <=> (lowerOk /\ upperOk)
                       /\ (x.val.v = 0 /\ r.value)
                            => (x.lower = <<>> \/ x.lower[1] <= 0)

C24_Witness ==
    /\ call.fn = "__contains__"
    /\ call.result.done
    /\ call.args.lower = <<1>>
    /\ call.args.upper = <<2>>
    /\ call.args.val = [type |-> "int", v |-> 0]
    /\ call.result.raised = NoErr
    /\ ~call.result.value

\* the number that stands immediately before the word layer(s)
C25_Number(lower, upper) == IF upper # <<>> THEN upper[1] ELSE lower[1]

\* the text of the claim: the bounds named, then the noun in the number
\* of the integer before it
C25_Text(lower, upper) ==
    (IF upper = <<>> THEN <<"Select at least ">> \o Format(lower[1])
     ELSE IF lower = <<>> THEN <<"Select at most ">> \o Format(upper[1])
     ELSE IF lower = upper THEN <<"Select ">> \o Format(lower[1])
     ELSE <<"Select between ">> \o Format(lower[1]) \o <<" and ">>
            \o Format(upper[1]))
        \o <<IF C25_Number(lower, upper) = 1 THEN " layer" ELSE " layers",
             " to generate plot">>

\* C25: _helper_text is None exactly when both bounds are None; otherwise
\* the text names the bound or bounds (at least L, at most U, L alone when
\* L = U, between L and U) and says layer in the singular exactly when the
\* number immediately before it is 1, layers for every other number
\* (4, 11, 21, ...)
C25_HelperTextNumber ==
    LET x == call.args
        r == call.result
    IN  (call.fn = "_helper_text" /\ r.done /\ r.raised = NoErr)
            => /\ r.value = <<>> <=> (x.lower = <<>> /\ x.upper = <<>>)
               /\ ~(x.lower = <<>> /\ x.upper = <<>>)
                    => r.value = C25_Text(x.lower, x.upper)

\* a SliceWidget whose selection is one image of two or three dimensions
C26_SliceReady ==
    /\ cls = "SliceWidget"
    /\ layers # <<>>
    /\ SelectionEligible(layers)
    /\ DimNames(layers[1]) # <<>>

\* the extent of the data of layer l along the selected slice dimension
C26_Extent(l) == Shape[l][IndexOf(DimNames(l), CurrentDimName(Cur))]

\* C26: for a SliceWidget on a 2-D or 3-D image, _slice_width equals the
\* extent of the data along the selected slice dimension, the slider range
\* set for dimension x is [0, shape[-2]], and for every slider value in
\* the range the x and y arrays of _get_xy have the same length
C26_SliceWidthAndLengths ==
    C26_SliceReady
        => LET l == layers[1]
               shape == Shape[l]
           IN  /\ SliceWidth(Cur, l) = C26_Extent(l)
               /\ (event \in {"init", "selection"} /\ CurrentDimName(Cur) = "x")
                    => slider.max = shape[Len(shape) - 1]
               /\ \A v \in 0..slider.max :
                    SliceWidth(Cur, l)
                        = SlicedSize([Cur EXCEPT !.slider.value = v], l, 1)

\* C27: in every reachable state of a SliceWidget with an eligible layer
\* the range of slice_selector matches the selected slice dimension: its
\* maximum is shape[-2] for x and shape[-1] for y, also after the user
\* changes dim_selector without changing the selection
C27_SliderRangeMatchesDim ==
    C26_SliceReady
        => LET shape == Shape[layers[1]]
           IN  slider.max = (IF CurrentDimName(Cur) = "x"
                             THEN shape[Len(shape) - 1]
                             ELSE shape[Len(shape)])

\* the key an axis had when the last redraw began
C29_KeyAtDraw(d) == GetKey([selectors |-> seen[Len(seen)]], d)

\* the features table of layer l is empty, or the key of the label, x or
\* y axis is unset or not one of its columns
C29_KeyMissing(l) ==
    \/ Rows[l] = 0
    \/ \E d \in {"label", "x", "y"} : C29_KeyAtDraw(d) \notin Range(Columns[l])

\* C29: when the label, x or y key of a FeaturesLineWidget is unset or not
\* a column of the features table (an empty table included), _ready_to_plot
\* returns False without raising and draw() is a silent no-op: the event's
\* one redraw ends with no exception and nothing plotted on the cleared
\* axes, the validity of the keys being checked before the label column is
\* looked up
C29_NotReadyIsSilent ==
    (/\ cls = "FeaturesLineWidget"
     /\ Cardinality(CallsOf("_draw")) = 1
     /\ CallsOf("draw") # {}
     /\ layers # <<>>
     /\ C29_KeyMissing(layers[1]))
        => /\ err = NoErr
           /\ slotErrs = <<>>
           /\ \A i \in DOMAIN axes : axes[i][1] = "prop_cycle"

\* C28: a change of the contrast limits of any layer of the viewer, in any
\* reachable state of a HistogramWidget (empty or ineligible selection,
\* no histogram drawn yet), never raises: the handler has ended without an
\* exception, and it has moved lines only when widget.layers is non-empty
\* and the lines of a histogram exist, to the limits of the selected layer
C28_ContrastChangeNeverRaises ==
    event = "contrast_limits"
        => /\ err = NoErr
           /\ slotErrs = <<>>
           /\ "canvas.draw" \in Range(log)
                => (layers # <<>> /\ contrast_lines = <<layers[1]>>)
====
